---- MODULE Spec2Model ----
(***************************************************************************)
(* paypal_digest: the ingestion-to-report pipeline.                        *)
(*                                                                         *)
(* Text (str) is a sequence of one-character strings, so that lower(),     *)
(* split(), strip() and substring search are computed as the code computes *)
(* them.  Optional[x] is a sequence of length 0 (None) or 1 (the value).   *)
(***************************************************************************)
EXTENDS Integers, Sequences, FiniteSets, TLC

VARIABLES
    stateFile,      \* state.json on disk: [kind, data]
    feeds,          \* what each default adapter's origin serves now: name -> [fails, items]
    pc,             \* position of the process in main()/run()/build_digest()
    mode,           \* how the pipeline was invoked: run(), main(), main() --output
    store,          \* StateStore._data of the current run: [kind, data]
    fresh,          \* build_digest: fresh_articles (sorted)
    idx,            \* build_digest: position of the loop over fresh_articles
    digestItems,    \* build_digest: digest_items
    processedIds,   \* build_digest: processed_ids
    written,        \* report documents written by the current invocation
    err,            \* the exception that ended the current invocation, or "none"
    saves,          \* number of StateStore.save() calls of the current invocation
    skipped,        \* the current run skipped an article that had no text
    fileAtStart,    \* history: the state file as the current run found it
    recorded,       \* history: identity -> the title first saved for it, over all runs
    sincePrev,      \* history: the last invocation ended normally and nothing changed since
    prevSkipped,    \* history: that build_digest skipped an article that had no text
    repeat,         \* history: "clean"/"skipped" when the current run repeats the previous
                    \* one (that one having skipped nothing / something), else "no"
    lost,           \* history: a state file holding identities was deleted or damaged
    cArg,           \* collect_articles call: the fetchers argument (Optional list)
    cOut,           \* collect_articles call: Optional result
    sText,          \* summarize_text call: the text argument
    sOut            \* summarize_text call: Optional result

vars == <<stateFile, feeds, pc, mode, store, fresh, idx, digestItems, processedIds,
          written, err, saves, skipped, fileAtStart, recorded, sincePrev,
          prevSkipped, repeat, lost, cArg, cOut, sText, sOut>>

-----------------------------------------------------------------------------
(* Bounds *)

\* longest list one adapter returns in the pipeline specification
MaxItems == 1
\* longest fetchers list handed to collect_articles in CollectSpec
MaxFetchers == 2
\* longest list one fetcher returns in CollectSpec
MaxFetchItems == 2
\* longest text handed to summarize_text in SummarizeSpec
MaxTextLen == 4

-----------------------------------------------------------------------------
(* Text *)

None == <<>>
Some(x) == <<x>>

Min(a, b) == IF a < b THEN a ELSE b

Whitespace == {" ", "\n"}

\* str.lower() on the characters the model uses
LowerChar(c) ==
    CASE c = "P" -> "p"
      [] c = "Y" -> "y"
      [] c = "L" -> "l"
      [] c = "M" -> "m"
      [] OTHER -> c

Lower(s) == [i \in 1..Len(s) |-> LowerChar(s[i])]

\* `kw in s`
Contains(s, kw) ==
    \E i \in 1..(Len(s) - Len(kw) + 1) : SubSeq(s, i, i + Len(kw) - 1) = kw

RECURSIVE SplitFrom(_, _, _)
\* str.split(): the maximal runs of non-whitespace characters
SplitFrom(s, i, cur) ==
    IF i > Len(s) THEN (IF cur = <<>> THEN <<>> ELSE <<cur>>)
    ELSE IF s[i] \in Whitespace
         THEN (IF cur = <<>> THEN <<>> ELSE <<cur>>) \o SplitFrom(s, i + 1, <<>>)
         ELSE SplitFrom(s, i + 1, Append(cur, s[i]))

Split(s) == SplitFrom(s, 1, <<>>)

RECURSIVE JoinSpace(_)
\* " ".join(parts)
JoinSpace(parts) ==
    IF parts = <<>> THEN <<>>
    ELSE IF Len(parts) = 1 THEN parts[1]
    ELSE parts[1] \o <<" ">> \o JoinSpace(Tail(parts))

RECURSIVE LStrip(_)
LStrip(s) == IF s # <<>> /\ s[1] \in Whitespace THEN LStrip(Tail(s)) ELSE s

RECURSIVE RStrip(_)
RStrip(s) ==
    IF s # <<>> /\ s[Len(s)] \in Whitespace THEN RStrip(SubSeq(s, 1, Len(s) - 1)) ELSE s

\* str.strip()
Strip(s) == RStrip(LStrip(s))

\* bool(x) of an Optional[str]: None and "" are falsy
Truthy(opt) == opt # None /\ opt[1] # <<>>

\* `opt or ""`
OrEmpty(opt) == IF Truthy(opt) THEN opt[1] ELSE <<>>

-----------------------------------------------------------------------------
(* Articles *)

sPayPal == <<"P", "a", "y", "P", "a", "l">>
sPYPL == <<"P", "Y", "P", "L">>
sMkt == <<"M", "k", "t">>
sPays == <<"p", "a", "y", "s">>
sRally == <<"u", "p">>
sPyplUp == <<"p", "y", "p", "l">>
sBlank == <<" ">>
sBody == <<"a", " ", "b">>
sPage == <<"p", "g">>

Keywords == {<<"p", "a", "y", "p", "a", "l">>, <<"p", "y", "p", "l">>}

Aware(t) == Some([aware |-> TRUE, t |-> t])
Naive(t) == Some([aware |-> FALSE, t |-> t])
DatetimeMin == [aware |-> FALSE, t |-> 0]

\* sha256("::".join(parts)).hexdigest(): one identity per (name, url)
CanonicalId(name, url) == <<name, url>>

\* the source label a fetcher gives its articles when the origin names none
SourceLabel(name) ==
    CASE name = "newsapi" -> "NewsAPI"
      [] name = "google_news" -> "Google News"
      [] name = "pymnts" -> "PYMNTS"
      [] OTHER -> name

\* an Article as the fetcher `name` builds it
Article(name, url, title, summary, content, ts) ==
    [id |-> CanonicalId(name, url), title |-> title, url |-> url,
     source |-> SourceLabel(name),
     published_at |-> ts, summary |-> summary, content |-> content]

\* Article.primary_text
PrimaryText(a) == IF Truthy(a.content) THEN a.content ELSE a.summary

\* _is_relevant
IsRelevant(a) ==
    LET text == Lower(a.title \o <<" ">> \o OrEmpty(a.summary))
    IN  \E kw \in Keywords : Contains(text, kw)

-----------------------------------------------------------------------------
(* fetchers.py: collect_articles *)

DefaultNames == <<"newsapi", "google_news", "pymnts">>

\* [NewsAPIFetcher(), GoogleNewsFetcher(), PYMNTSFetcher()]; `world` is what their
\* origins serve: fails = fetch raises, items = the list fetch returns
DefaultFetchers(world) ==
    [i \in 1..3 |-> [name |-> DefaultNames[i],
                     fails |-> world[DefaultNames[i]].fails,
                     items |-> world[DefaultNames[i]].items]]

\* `fetchers or [...]`: None and the empty list both give the default adapters
EffectiveFetchers(arg, world) ==
    IF arg = None \/ arg[1] = <<>> THEN DefaultFetchers(world) ELSE arg[1]

\* Admit without `seen_ids.add(article.id)`
AdmitForgetsId(acc, article) ==
    IF article.id \in acc.seen_ids THEN acc
    ELSE IF ~IsRelevant(article) THEN acc
    ELSE [aggregated |-> Append(acc.aggregated, article), seen_ids |-> acc.seen_ids]

\* one iteration of `for article in items`
Admit(acc, article) ==
    IF article.id \in acc.seen_ids THEN acc
    ELSE IF ~IsRelevant(article) THEN acc
    ELSE [aggregated |-> Append(acc.aggregated, article),
          seen_ids |-> acc.seen_ids \cup {article.id}]

RECURSIVE AdmitAll(_, _)
AdmitAll(acc, items) ==
    IF items = <<>> THEN acc ELSE AdmitAll(Admit(acc, Head(items)), Tail(items))

\* FetchInto where a raising fetch throws away what was collected so far
FetchIntoDropsOnFailure(acc, fetcher) ==
    IF fetcher.fails THEN [aggregated |-> <<>>, seen_ids |-> {}]
    ELSE AdmitAll(acc, fetcher.items)

\* one iteration of `for fetcher in fetchers`: a raising fetch is logged and skipped
FetchInto(acc, fetcher) ==
    IF fetcher.fails THEN acc ELSE AdmitAll(acc, fetcher.items)

RECURSIVE CollectFrom(_, _)
CollectFrom(acc, fetchers) ==
    IF fetchers = <<>> THEN acc
    ELSE CollectFrom(FetchInto(acc, Head(fetchers)), Tail(fetchers))

CollectArticles(arg, world) ==
    CollectFrom([aggregated |-> <<>>, seen_ids |-> {}],
                EffectiveFetchers(arg, world)).aggregated

-----------------------------------------------------------------------------
(* content.py *)

MaxChars == 2000

RECURSIVE JoinParagraphs(_)
\* "\n\n".join(paragraphs)
JoinParagraphs(ps) ==
    IF ps = <<>> THEN <<>>
    ELSE IF Len(ps) = 1 THEN ps[1]
    ELSE ps[1] \o <<"\n", "\n">> \o JoinParagraphs(Tail(ps))

\* what requests.get(article.url) gives: a failure, or a page with its non-empty
\* stripped <p> texts
RequestFailed == [ok |-> FALSE, paragraphs |-> <<>>]
Page(ps) == [ok |-> TRUE, paragraphs |-> ps]
Responses == {RequestFailed, Page(<<>>), Page(<<sPage>>)}

\* enrich_article_content
EnrichArticleContent(article, response) ==
    IF Truthy(article.content) THEN article
    ELSE IF ~response.ok THEN article
    ELSE IF response.paragraphs = <<>> THEN article
    ELSE LET text == JoinParagraphs(response.paragraphs)
         IN  [article EXCEPT !.content =
                 Some(IF Len(text) > MaxChars THEN SubSeq(text, 1, MaxChars) ELSE text)]

\* best_text
BestText(article, response) == PrimaryText(EnrichArticleContent(article, response))

-----------------------------------------------------------------------------
(* summarizer.py *)

FallbackTokens == 60

\* what LsaSummarizer returns for the document: nothing, or (when the text has a
\* sentence at all) the sentences it picked
LsaOutcomes == {"nothing", "picked"}

LsaSentences(text, lsa) ==
    IF lsa = "picked" /\ Split(text) # <<>> THEN <<Strip(text)>> ELSE <<>>

\* summarize_text
SummarizeText(text, lsa) ==
    LET summary == Strip(JoinSpace(LsaSentences(text, lsa)))
    IN  IF summary = <<>>
        THEN JoinSpace(SubSeq(Split(text), 1, Min(FallbackTokens, Len(Split(text)))))
        ELSE summary

-----------------------------------------------------------------------------
(* digest.py: ordering *)

\* key=lambda art: art.published_at or datetime.min
SortKey(a) == IF a.published_at = None THEN DatetimeMin ELSE a.published_at[1]

\* datetime comparison raises TypeError between an aware and a naive value
SortRaises(s) ==
    \E i, j \in 1..Len(s) : SortKey(s[i]).aware # SortKey(s[j]).aware

RECURSIVE InsertDesc(_, _)
\* a goes after every element whose key is >= its own (the sort is stable)
InsertDesc(sorted, a) ==
    IF sorted = <<>> THEN <<a>>
    ELSE IF SortKey(Head(sorted)).t < SortKey(a).t THEN <<a>> \o sorted
    ELSE <<Head(sorted)>> \o InsertDesc(Tail(sorted), a)

RECURSIVE SortFrom(_, _)
SortFrom(sorted, rest) ==
    IF rest = <<>> THEN sorted ELSE SortFrom(InsertDesc(sorted, Head(rest)), Tail(rest))

\* list.sort(key=..., reverse=True)
SortDesc(s) == SortFrom(<<>>, s)

-----------------------------------------------------------------------------
(* state.py *)

EmptyMap == [i \in {} |-> <<>>]

FileKinds == {"missing", "ok", "badjson", "nondict", "undecodable"}

\* StateStore.__init__ / _load.  kind "dict": _data is a mapping; "nondict": the
\* file held valid JSON that is not an object, and _data is that value
LoadRaises(file) == file.kind = "undecodable"

Load(file) ==
    CASE file.kind = "missing" -> [kind |-> "dict", data |-> EmptyMap]
      [] file.kind = "ok" -> [kind |-> "dict", data |-> file.data]
      [] file.kind = "badjson" -> [kind |-> "dict", data |-> EmptyMap]
      [] OTHER -> [kind |-> "nondict", data |-> EmptyMap]

\* StateStore.seen_ids: set(self._data.keys()) raises AttributeError unless _data
\* is a mapping
SeenIdsRaises(st) == st.kind # "dict"

SeenIds(st) == DOMAIN st.data

\* mark_seen that rebinds _data to the one entry instead of adding to it
MarkSeenReplaces(st, id, title) ==
    [st EXCEPT !.data = [k \in {id} |-> title]]

\* StateStore.mark_seen
MarkSeen(st, id, title) ==
    [st EXCEPT !.data = [k \in DOMAIN st.data \cup {id} |->
                            IF k = id THEN title ELSE st.data[k]]]

\* save that writes an empty mapping
SaveWritesNothing(st) ==
    [kind |-> IF st.kind = "dict" THEN "ok" ELSE "nondict", data |-> EmptyMap]

\* StateStore.save: json.dumps(self._data) overwrites the file
Save(st) ==
    [kind |-> IF st.kind = "dict" THEN "ok" ELSE "nondict", data |-> st.data]

-----------------------------------------------------------------------------
(* The origins *)

SeqsUpTo(S, n) == UNION {[1..k -> S] : k \in 0..n}

\* articles the default adapters can build from what their origins serve
FeedPool(name) ==
    CASE name = "newsapi" ->
            {Article(name, "u1", sPayPal, Some(sPays), Some(sBody), Aware(2)),
             Article(name, "u1", sPYPL, None, None, None)}
      [] name = "google_news" ->
            {Article(name, "u1", sPayPal, Some(sBlank), None, Aware(1)),
             Article(name, "u2", sMkt, Some(sRally), None, None)}
      [] OTHER ->
            {Article(name, "u1", sPayPal, None, None, Naive(1))}

Serves(items) == [fails |-> FALSE, items |-> items]
Fails == [fails |-> TRUE, items |-> <<>>]

FeedOutcomes(name) ==
    {Fails} \cup {Serves(s) : s \in SeqsUpTo(FeedPool(name), MaxItems)}

FeedNames == {DefaultNames[i] : i \in 1..3}

QuietFeeds == [n \in FeedNames |-> Serves(<<>>)]

-----------------------------------------------------------------------------
(* digest.py: build_digest, run; __main__.py: main *)

Modes == {"run", "main", "main_output"}

EmptyStore == [kind |-> "dict", data |-> EmptyMap]

\* fresh_articles without the history filter
FreshArticlesIgnoresHistory(articles, st) == articles

\* fresh_articles before the sort
FreshArticles(articles, st) == SelectSeq(articles, LAMBDA a : a.id \notin SeenIds(st))

DigestItem(article, summary) ==
    [title |-> article.title, source |-> article.source, url |-> article.url,
     published_at |-> article.published_at, summary |-> summary]

\* next((a for a in fresh_articles if a.id == article_id), None)
Matching(articles, id) ==
    LET hits == SelectSeq(articles, LAMBDA a : a.id = id)
    IN  IF hits = <<>> THEN None ELSE Some(hits[1])

RECURSIVE MarkAll(_, _, _)
\* for article_id in processed_ids: state.mark_seen(...)
MarkAll(st, ids, articles) ==
    IF ids = <<>> THEN st
    ELSE LET m == Matching(articles, Head(ids))
         IN  MarkAll(MarkSeen(st, Head(ids), IF m = None THEN <<>> ELSE m[1].title),
                     Tail(ids), articles)

\* history: the titles first saved
Remember(rec, data) ==
    [k \in DOMAIN rec \cup DOMAIN data |-> IF k \in DOMAIN rec THEN rec[k] ELSE data[k]]

localsReset ==
    /\ store' = EmptyStore
    /\ fresh' = <<>>
    /\ idx' = 0
    /\ digestItems' = <<>>
    /\ processedIds' = <<>>
    /\ written' = {}
    /\ err' = "none"
    /\ saves' = 0
    /\ skipped' = FALSE
    /\ repeat' = "no"
    /\ mode' = "run"

callVars == <<cArg, cOut, sText, sOut>>

Init ==
    /\ stateFile = [kind |-> "missing", data |-> EmptyMap]
    /\ feeds = QuietFeeds
    /\ pc = "idle"
    /\ mode = "run"
    /\ store = EmptyStore
    /\ fresh = <<>>
    /\ idx = 0
    /\ digestItems = <<>>
    /\ processedIds = <<>>
    /\ written = {}
    /\ err = "none"
    /\ saves = 0
    /\ skipped = FALSE
    /\ fileAtStart = [kind |-> "missing", data |-> EmptyMap]
    /\ recorded = EmptyMap
    /\ sincePrev = FALSE
    /\ prevSkipped = FALSE
    /\ repeat = "no"
    /\ lost = FALSE
    /\ cArg = None
    /\ cOut = None
    /\ sText = <<>>
    /\ sOut = None

\* an origin starts serving something else
Publish(name, outcome) ==
    /\ pc = "idle"
    /\ feeds[name] # outcome
    /\ feeds' = [feeds EXCEPT ![name] = outcome]
    /\ sincePrev' = FALSE
    /\ UNCHANGED <<stateFile, pc, mode, store, fresh, idx, digestItems, processedIds,
                   written, err, saves, skipped, fileAtStart, recorded, prevSkipped,
                   repeat, lost, callVars>>

\* the state file is deleted or damaged between two runs
Tamper(kind) ==
    /\ pc = "idle"
    /\ stateFile.kind # kind
    /\ stateFile' = [kind |-> kind, data |-> EmptyMap]
    /\ lost' = (lost \/ DOMAIN stateFile.data # {})
    /\ sincePrev' = FALSE
    /\ UNCHANGED <<feeds, pc, mode, store, fresh, idx, digestItems, processedIds,
                   written, err, saves, skipped, fileAtStart, recorded, prevSkipped,
                   repeat, callVars>>

\* main() / run() up to and including StateStore(config.state_file)
StartRun(m) ==
    /\ pc = "idle"
    /\ mode' = m
    /\ fileAtStart' = stateFile
    /\ repeat' = IF ~sincePrev THEN "no" ELSE IF prevSkipped THEN "skipped" ELSE "clean"
    /\ sincePrev' = FALSE
    /\ IF LoadRaises(stateFile)
       THEN /\ pc' = "raised"
            /\ err' = "UnicodeDecodeError"
            /\ store' = store
       ELSE /\ pc' = "collect"
            /\ err' = "none"
            /\ store' = Load(stateFile)
    /\ UNCHANGED <<stateFile, feeds, fresh, idx, digestItems, processedIds, written,
                   saves, skipped, recorded, prevSkipped, lost, callVars>>

\* build_digest: collect_articles, the history filter and the sort
CollectAndFilter ==
    /\ pc = "collect"
    /\ LET articles == CollectArticles(None, feeds)
       IN  IF articles # <<>> /\ SeenIdsRaises(store)
           THEN /\ pc' = "raised"
                /\ err' = "AttributeError"
                /\ UNCHANGED <<fresh, idx>>
           ELSE LET unsorted == IF articles = <<>> THEN <<>>
                                ELSE FreshArticles(articles, store)
                IN  IF SortRaises(unsorted)
                    THEN /\ pc' = "raised"
                         /\ err' = "TypeError"
                         /\ UNCHANGED <<fresh, idx>>
                    ELSE /\ pc' = "loop"
                         /\ err' = err
                         /\ fresh' = SortDesc(unsorted)
                         /\ idx' = 1
    /\ UNCHANGED <<stateFile, feeds, mode, store, digestItems, processedIds, written,
                   saves, skipped, fileAtStart, recorded, sincePrev, prevSkipped, repeat,
                   lost, callVars>>

\* build_digest: one iteration of `for article in fresh_articles`
ProcessArticle(response, lsa) ==
    /\ pc = "loop"
    /\ idx <= Len(fresh)
    /\ LET article == fresh[idx]
           enriched == EnrichArticleContent(article, response)
           text == PrimaryText(enriched)
       IN  /\ fresh' = [fresh EXCEPT ![idx] = enriched]
           /\ IF ~Truthy(text)
              THEN /\ skipped' = TRUE
                   /\ UNCHANGED <<digestItems, processedIds>>
              ELSE /\ digestItems' =
                        Append(digestItems, DigestItem(enriched, SummarizeText(text[1], lsa)))
                   /\ processedIds' = Append(processedIds, article.id)
                   /\ skipped' = skipped
    /\ idx' = idx + 1
    /\ UNCHANGED <<stateFile, feeds, pc, mode, store, written, err, saves, fileAtStart,
                   recorded, sincePrev, prevSkipped, repeat, lost, callVars>>

\* build_digest: mark_seen for every processed id, then state.save(); returns
Commit ==
    /\ pc = "loop"
    /\ idx > Len(fresh)
    /\ store' = MarkAll(store, processedIds, fresh)
    /\ stateFile' = Save(store')
    /\ saves' = saves + 1
    /\ recorded' = Remember(recorded, stateFile'.data)
    /\ sincePrev' = TRUE
    /\ prevSkipped' = skipped
    /\ pc' = "built"
    /\ UNCHANGED <<feeds, mode, fresh, idx, digestItems, processedIds, written, err,
                   skipped, fileAtStart, repeat, lost, callVars>>

\* run: write_digest when the digest has items
WriteDigest ==
    /\ pc = "built"
    /\ written' = IF digestItems # <<>>
                  THEN written \cup {[path |-> "digest_path", items |-> digestItems]}
                  ELSE written
    /\ pc' = "ran"
    /\ UNCHANGED <<stateFile, feeds, mode, store, fresh, idx, digestItems, processedIds,
                   err, saves, skipped, fileAtStart, recorded, sincePrev, prevSkipped,
                   repeat, lost, callVars>>

\* main: args.output.write_text(...) when --output is given
WriteOutput ==
    /\ pc = "ran"
    /\ written' = IF mode = "main_output"
                  THEN written \cup {[path |-> "output", items |-> digestItems]}
                  ELSE written
    /\ pc' = "done"
    /\ UNCHANGED <<stateFile, feeds, mode, store, fresh, idx, digestItems, processedIds,
                   err, saves, skipped, fileAtStart, recorded, sincePrev, prevSkipped,
                   repeat, lost, callVars>>

\* the process is killed in mid-run
Crash ==
    /\ pc \in {"collect", "loop", "built", "ran"}
    /\ pc' = "crashed"
    /\ sincePrev' = FALSE
    /\ UNCHANGED <<stateFile, feeds, mode, store, fresh, idx, digestItems, processedIds,
                   written, err, saves, skipped, fileAtStart, recorded,
                   prevSkipped, repeat, lost, callVars>>

\* the process is gone; its memory with it
Exit ==
    /\ pc \in {"done", "raised", "crashed"}
    /\ pc' = "idle"
    /\ localsReset
    /\ UNCHANGED <<stateFile, feeds, fileAtStart, recorded, sincePrev, prevSkipped,
                   lost, callVars>>

Next ==
    \/ \E n \in FeedNames : \E o \in FeedOutcomes(n) : Publish(n, o)
    \/ \E k \in FileKinds \ {"ok"} : Tamper(k)
    \/ \E m \in Modes : StartRun(m)
    \/ CollectAndFilter
    \/ \E r \in Responses : \E l \in LsaOutcomes : ProcessArticle(r, l)
    \/ Commit
    \/ WriteDigest
    \/ WriteOutput
    \/ Crash
    \/ Exit

Spec == Init /\ [][Next]_vars

-----------------------------------------------------------------------------
(* collect_articles and summarize_text called on their own *)

CollectPool ==
    {Article("custom", "u1", sMkt, Some(sRally), None, None),
     Article("custom", "u1", sPayPal, None, None, None),
     Article("custom", "u1", sMkt, Some(sPyplUp), None, None),
     Article("custom", "u2", sPYPL, None, None, None)}

\* NewsFetcher subclasses handed to collect_articles
CustomFetchers ==
    {[name |-> "custom", fails |-> TRUE, items |-> <<>>]} \cup
    {[name |-> "custom", fails |-> FALSE, items |-> s] :
        s \in SeqsUpTo(CollectPool, MaxFetchItems)}

CollectWorlds ==
    {QuietFeeds,
     [QuietFeeds EXCEPT !["pymnts"] =
         Serves(<<Article("pymnts", "u1", sPayPal, None, None, Naive(1))>>)]}

pipelineIdle ==
    /\ stateFile = [kind |-> "missing", data |-> EmptyMap]
    /\ pc = "idle"
    /\ mode = "run"
    /\ store = EmptyStore
    /\ fresh = <<>>
    /\ idx = 0
    /\ digestItems = <<>>
    /\ processedIds = <<>>
    /\ written = {}
    /\ err = "none"
    /\ saves = 0
    /\ skipped = FALSE
    /\ fileAtStart = [kind |-> "missing", data |-> EmptyMap]
    /\ recorded = EmptyMap
    /\ sincePrev = FALSE
    /\ prevSkipped = FALSE
    /\ repeat = "no"
    /\ lost = FALSE

pipelineVars == <<stateFile, pc, mode, store, fresh, idx, digestItems, processedIds,
                  written, err, saves, skipped, fileAtStart, recorded, sincePrev,
                  prevSkipped, repeat, lost>>

CollectInit ==
    /\ pipelineIdle
    /\ feeds \in CollectWorlds
    /\ cArg \in {None} \cup {Some(fs) : fs \in SeqsUpTo(CustomFetchers, MaxFetchers)}
    /\ cOut = None
    /\ sText = <<>>
    /\ sOut = None

\* collect_articles(config, fetchers)
CollectCall ==
    /\ cOut = None
    /\ cOut' = Some(CollectArticles(cArg, feeds))
    /\ UNCHANGED <<pipelineVars, feeds, cArg, sText, sOut>>

CollectNext == CollectCall

CollectSpec == CollectInit /\ [][CollectNext]_vars

TextChars == {"a", " ", "\n"}

SummarizeInit ==
    /\ pipelineIdle
    /\ feeds = QuietFeeds
    /\ cArg = None
    /\ cOut = None
    /\ sText \in SeqsUpTo(TextChars, MaxTextLen)
    /\ sOut = None

\* summarize_text(text)
SummarizeCall(lsa) ==
    /\ sOut = None
    /\ sOut' = Some(SummarizeText(sText, lsa))
    /\ UNCHANGED <<pipelineVars, feeds, cArg, cOut, sText>>

SummarizeNext == \E l \in LsaOutcomes : SummarizeCall(l)

SummarizeSpec == SummarizeInit /\ [][SummarizeNext]_vars

-----------------------------------------------------------------------------
(* Claims *)

Range(seq) == {seq[i] : i \in 1..Len(seq)}

Returned == pc \in {"built", "ran", "done"}

\* C1 as stated: once an identity has been saved by some run, no later run
\* processes an item with that identity into its report, whatever happened to the
\* state file in between, and the title first saved for it is never replaced.
C1_NeverReprocessed ==
    /\ pc = "loop" => \A id \in Range(processedIds) : id \notin DOMAIN recorded
    /\ stateFile.kind = "ok" =>
          \A id \in DOMAIN stateFile.data \cap DOMAIN recorded :
              stateFile.data[id] = recorded[id]

\* C1 amended: a run never processes an item whose identity is in the history it
\* loaded, and saves the loaded titles back unchanged; so, as long as no state
\* file holding identities has been deleted or damaged, a saved identity is never
\* reprocessed and its first title is kept.
C1_NeverReprocessedWhileIntact ==
    /\ pc \in {"loop", "built", "ran", "done"} =>
          \A id \in Range(processedIds) : id \notin DOMAIN fileAtStart.data
    /\ Returned =>
          \A id \in DOMAIN fileAtStart.data :
              id \in DOMAIN stateFile.data /\ stateFile.data[id] = fileAtStart.data[id]
    /\ ~lost => C1_NeverReprocessed

\* a run over an intact history is offered a saved identity under a new title and
\* leaves it out
C1_Witness ==
    /\ pc = "built"
    /\ ~lost
    /\ \E a \in Range(CollectArticles(None, feeds)) :
          /\ a.id \in DOMAIN recorded
          /\ a.title # recorded[a.id]
          /\ a.id \notin Range(processedIds)
          /\ stateFile.data[a.id] = recorded[a.id]

\* C2 as stated: a run that repeats the previous one (same adapter outputs, state
\* file as that run saved it) returns no digest items and no new ids, whatever
\* enrichment did in either run.
C2_SecondRunEmpty ==
    (Returned /\ repeat # "no") => (digestItems = <<>> /\ processedIds = <<>>)

\* C2 amended: the same, provided the previous run skipped no article for lack
\* of text.
C2_SecondRunEmptyUnlessSkipped ==
    (Returned /\ repeat = "clean") => (digestItems = <<>> /\ processedIds = <<>>)

\* a repeat run whose adapters do return relevant articles
C2_Witness ==
    /\ pc = "built"
    /\ repeat = "clean"
    /\ CollectArticles(None, feeds) # <<>>
    /\ digestItems = <<>>

\* C3 as stated: after every save() the state file holds every identity any
\* earlier save() wrote.
C3_Monotonic ==
    pc = "built" => DOMAIN recorded \subseteq DOMAIN stateFile.data

\* C3 amended: save() writes every identity the run loaded; so the file holds
\* every identity ever saved as long as no state file holding identities has been
\* deleted or damaged.
C3_MonotonicWhileIntact ==
    pc = "built" =>
        /\ DOMAIN fileAtStart.data \subseteq DOMAIN stateFile.data
        /\ ~lost => DOMAIN recorded \subseteq DOMAIN stateFile.data

\* a run that loaded a non-empty history and added to it
C3_Witness ==
    /\ pc = "built"
    /\ ~lost
    /\ DOMAIN fileAtStart.data # {}
    /\ processedIds # <<>>
    /\ DOMAIN fileAtStart.data \subseteq DOMAIN stateFile.data

\* C4: the state is saved at most once per run, and when the process has crashed
\* with identities of this run saved to disk, the report document holding their
\* items has been written.
C4_WriteAfterSuccess ==
    /\ saves <= 1
    /\ (pc = "crashed" /\ saves = 1 /\ processedIds # <<>>) =>
          \E d \in written : d.items = digestItems

\* C5: a run that produced no items has written no document and has left the
\* history, in memory and as the state file holds it, as it found it.
C5_EmptyRunWritesNothing ==
    (pc = "done" /\ digestItems = <<>>) =>
        /\ written = {}
        /\ store = Load(fileAtStart)
        /\ Load(stateFile) = Load(fileAtStart)

\* C7: build_digest does not fail on the timestamps, drops no article in the
\* sort, and orders by published_at descending with the unknown ones last.
C7_OrderedUnknownLast ==
    /\ err # "TypeError"
    /\ (pc = "loop" /\ idx = 1) =>
          /\ Len(fresh) = Len(FreshArticles(CollectArticles(None, feeds), store))
          /\ \A i, j \in 1..Len(fresh) :
                i < j =>
                   /\ fresh[i].published_at = None => fresh[j].published_at = None
                   /\ (fresh[i].published_at # None /\ fresh[j].published_at # None) =>
                          fresh[i].published_at[1].t >= fresh[j].published_at[1].t

\* C10: a run that found the state file missing or malformed does not raise from
\* the store and starts from an empty history.
C10_CorruptionRecovery ==
    (pc # "idle" /\ fileAtStart.kind # "ok") =>
        /\ err \notin {"UnicodeDecodeError", "AttributeError"}
        /\ pc = "collect" => (~SeenIdsRaises(store) /\ SeenIds(store) = {})

\* the fetchers collect_articles iterates, and what the non-failing ones return,
\* in order
RECURSIVE Flatten(_)
Flatten(fetchers) ==
    IF fetchers = <<>> THEN <<>>
    ELSE (IF Head(fetchers).fails THEN <<>> ELSE Head(fetchers).items)
         \o Flatten(Tail(fetchers))

Offered == Flatten(EffectiveFetchers(cArg, feeds))

RECURSIVE AtPositions(_, _, _)
AtPositions(seq, I, i) ==
    IF i > Len(seq) THEN <<>>
    ELSE (IF i \in I THEN <<seq[i]>> ELSE <<>>) \o AtPositions(seq, I, i + 1)

DistinctIds(seq) == \A i, j \in 1..Len(seq) : seq[i].id = seq[j].id => i = j

\* C6 as stated: every item of the aggregated list is the first item offered with
\* its identity, relevant or not, and no identity occurs twice.
C6_FirstSeenWins ==
    cOut # None =>
        LET offered == Offered
            out == cOut[1]
        IN  /\ DistinctIds(out)
            /\ \A k \in 1..Len(out) :
                  \E i \in 1..Len(offered) :
                      /\ offered[i] = out[k]
                      /\ \A j \in 1..(i - 1) : offered[j].id # offered[i].id

\* C6 amended: the aggregated list is, in order, the first relevant item offered
\* with each identity; an item the filter dropped does not reserve its identity.
C6_FirstRelevantWins ==
    cOut # None =>
        LET offered == Offered
            relevant == {i \in 1..Len(offered) : IsRelevant(offered[i])}
            first == {i \in relevant :
                         \A j \in 1..(i - 1) :
                             offered[j].id = offered[i].id => j \notin relevant}
        IN  /\ DistinctIds(cOut[1])
            /\ cOut[1] = AtPositions(offered, first, 1)

\* two different relevant items with one identity were offered; the first was kept
C6_Witness ==
    /\ cOut # None
    /\ \E i, j \in 1..Len(Offered) :
          /\ i < j
          /\ Offered[i].id = Offered[j].id
          /\ Offered[i] # Offered[j]
          /\ IsRelevant(Offered[i]) /\ IsRelevant(Offered[j])
          /\ Offered[i] \in Range(cOut[1])
          /\ Offered[j] \notin Range(cOut[1])

\* the adapters of the list that neither raise nor return nothing
NonFailing(fetchers) == SelectSeq(fetchers, LAMBDA f : ~f.fails /\ f.items # <<>>)

\* C8 as stated: the result for a list of adapters is the result of
\* collect_articles for the list without the adapters that fail.
C8_FailureIsolation ==
    (cOut # None /\ cArg # None) =>
        cOut[1] = CollectArticles(Some(NonFailing(cArg[1])), feeds)

\* C8 amended: the same when some adapter of the list does not fail; when all of
\* them fail the result is empty.
C8_FailureIsolationOfSome ==
    (cOut # None /\ cArg # None /\ cArg[1] # <<>>) =>
        IF NonFailing(cArg[1]) # <<>>
        THEN cOut[1] = CollectArticles(Some(NonFailing(cArg[1])), feeds)
        ELSE cOut[1] = <<>>

\* a raising adapter comes before one that returns a relevant article, and that
\* article is in the result
C8_Witness ==
    /\ cOut # None
    /\ cArg # None
    /\ \E i, j \in 1..Len(cArg[1]) :
          /\ i < j
          /\ cArg[1][i].fails
          /\ ~cArg[1][j].fails
          /\ \E a \in Range(cArg[1][j].items) : a \in Range(cOut[1])

\* C9: summarize_text returns a non-empty string for every non-empty text.
C9_SummaryNeverEmpty ==
    (sOut # None /\ sText # <<>>) => sOut[1] # <<>>

====
